---- MODULE Spec2Model ----
(***************************************************************************)
(* Model of tcz-proxy (asssaf/tcz-proxy).  src/main.go holds three         *)
(* variants of the program:                                                *)
(*   - the routing proxy (lines 1-266): NewProxy, findMapping,             *)
(*     buildTargetURL, ServeHTTP, main;                                    *)
(*   - the mirror proxy (lines 567-739): tryRequest, replaceHost,          *)
(*     ServeHTTP with the 404 failover loop;                               *)
(*   - the plain proxy (lines 741-835).                                    *)
(* Strings are sequences of one-character strings.  The library calls the  *)
(* code makes (regexp.Compile, MatchString, ReplaceAllString, url.Parse,   *)
(* URL.String) are modelled by what they do on the alphabets used here.    *)
(***************************************************************************)
EXTENDS Integers, Sequences, FiniteSets, TLC

\* ------------------------------------------------------------------------
\* Bounds of the model
\* ------------------------------------------------------------------------
MaxPathLen == 3

MaxQueryLen == 1

MaxMirrors == 2

MaxCalls == 2

\* ------------------------------------------------------------------------
\* Characters
\* ------------------------------------------------------------------------
Digits == {"0", "1", "2", "3", "4", "5", "6", "7", "8", "9"}

Letters == {"a", "b", "c", "d", "e", "h", "m", "p", "s", "t", "x"}

DigitVal(c) ==
    CASE c = "0" -> 0 [] c = "1" -> 1 [] c = "2" -> 2 [] c = "3" -> 3
      [] c = "4" -> 4 [] c = "5" -> 5 [] c = "6" -> 6 [] c = "7" -> 7
      [] c = "8" -> 8 [] c = "9" -> 9

\* s[from..to] (1-based, inclusive), empty when from > to
Slice(s, from, to) == IF from > to THEN <<>> ELSE SubSeq(s, from, to)

\* position of the first occurrence of character c in s at or after from;
\* 0 when there is none
RECURSIVE IndexFrom(_, _, _)
IndexFrom(s, c, from) ==
    IF from > Len(s) THEN 0
    ELSE IF s[from] = c THEN from
    ELSE IndexFrom(s, c, from + 1)

HasPrefix(s, p) == Len(s) >= Len(p) /\ SubSeq(s, 1, Len(p)) = p

\* does the sequence sub occur in s as a contiguous block
Contains(s, sub) ==
    \E k \in 0..(Len(s) - Len(sub)) : SubSeq(s, k + 1, k + Len(sub)) = sub

\* all sequences over alphabet of length at most n
RECURSIVE SeqsUpTo(_, _)
SeqsUpTo(alphabet, n) ==
    IF n = 0 THEN {<<>>}
    ELSE LET shorter == SeqsUpTo(alphabet, n - 1)
         IN  shorter \cup {Append(s, c) : s \in shorter, c \in alphabet}

\* ------------------------------------------------------------------------
\* regexp.Compile: the syntax of the patterns (a subset of Go's RE2 syntax:
\* literals, '.', '^', '$', '\d', '\' + punctuation, [...] classes of plain
\* characters, capturing '(...)', non-capturing '(?:...)', '|', '*', '+',
\* '?' and their non-greedy forms).  A parse returns [err, re, i, g]:
\* whether it failed, the syntax tree, the position after what was read,
\* the next capture-group index.
\* ------------------------------------------------------------------------
MetaChars == {"(", ")", "|", "*", "+", "?", ".", "^", "$", "[", "]", "\\"}

RepeatOps == {"*", "+", "?"}

ParseErr == [err |-> TRUE, re |-> [op |-> "empty"], i |-> 0, g |-> 0]

ParseOk(re, i, g) == [err |-> FALSE, re |-> re, i |-> i, g |-> g]

RepeatNode(c, sub, lazy) ==
    CASE c = "*" -> [op |-> "star", a |-> sub, lazy |-> lazy]
      [] c = "+" -> [op |-> "plus", a |-> sub, lazy |-> lazy]
      [] c = "?" -> [op |-> "quest", a |-> sub, lazy |-> lazy]

\* the characters of a [...] class starting after the '[' at position i - 1
RECURSIVE ParseClass(_, _, _)
ParseClass(s, i, acc) ==
    IF i > Len(s) THEN ParseErr                       \* missing closing ]
    ELSE IF s[i] = "]" /\ acc # {} THEN ParseOk([op |-> "class", set |-> acc], i + 1, 0)
    ELSE ParseClass(s, i + 1, acc \cup {s[i]})

RECURSIVE ParseAlt(_, _, _), ParseConcat(_, _, _, _), ParseAtom(_, _, _), ParseRepeat(_, _, _)

\* one atom: a group, a class, an escape, an anchor, '.' or a literal
ParseAtom(s, i, g) ==
    LET c == s[i]
        nonCapturing == i + 2 <= Len(s) /\ s[i + 1] = "?" /\ s[i + 2] = ":"
        Closed(body) ==
            IF body.err \/ body.i > Len(s) \/ s[body.i] # ")"
            THEN ParseErr                   \* missing closing )
            ELSE ParseOk(IF nonCapturing THEN body.re
                         ELSE [op |-> "group", n |-> g, a |-> body.re],
                         body.i + 1, body.g)
        Class(cls) == IF cls.err THEN ParseErr ELSE ParseOk(cls.re, cls.i, g)
    IN
    CASE c = "(" ->
           IF i + 1 <= Len(s) /\ s[i + 1] = "?" /\ ~nonCapturing
           THEN ParseErr                    \* missing argument to repetition operator
           ELSE Closed(ParseAlt(s, IF nonCapturing THEN i + 3 ELSE i + 1,
                                   IF nonCapturing THEN g ELSE g + 1))
      [] c = "[" -> Class(ParseClass(s, i + 1, {}))
      [] c = "\\" ->
           IF i + 1 > Len(s) THEN ParseErr  \* trailing backslash
           ELSE IF s[i + 1] = "d" THEN ParseOk([op |-> "class", set |-> Digits], i + 2, g)
           ELSE IF s[i + 1] \notin (Letters \cup Digits)
                THEN ParseOk([op |-> "lit", ch |-> s[i + 1]], i + 2, g)
           ELSE ParseErr                    \* escapes outside the modelled subset
      [] c = "." -> ParseOk([op |-> "any"], i + 1, g)
      [] c = "^" -> ParseOk([op |-> "bol"], i + 1, g)
      [] c = "$" -> ParseOk([op |-> "eol"], i + 1, g)
      [] c \in RepeatOps -> ParseErr        \* missing argument to repetition operator
      [] OTHER -> ParseOk([op |-> "lit", ch |-> c], i + 1, g)

\* an atom followed by at most one repetition operator, which a following
\* '?' makes non-greedy (a second operator is Go's "invalid nested
\* repetition operator")
ParseRepeat(s, i, g) ==
    LET Repeated(atom) ==
            IF atom.err THEN ParseErr
            ELSE IF atom.i <= Len(s) /\ s[atom.i] \in RepeatOps
            THEN LET lazy == atom.i + 1 <= Len(s) /\ s[atom.i + 1] = "?"
                     next == IF lazy THEN atom.i + 2 ELSE atom.i + 1
                 IN  IF next <= Len(s) /\ s[next] \in RepeatOps
                     THEN ParseErr
                     ELSE ParseOk(RepeatNode(s[atom.i], atom.re, lazy), next, atom.g)
            ELSE atom
    IN  Repeated(ParseAtom(s, i, g))

\* a concatenation: repeats up to '|', ')' or the end
ParseConcat(s, i, g, acc) ==
    LET Rest(r) ==
            IF r.err THEN ParseErr
            ELSE ParseConcat(s, r.i, r.g,
                             IF acc.op = "empty" THEN r.re
                             ELSE [op |-> "cat", a |-> acc, b |-> r.re])
    IN  IF i > Len(s) \/ s[i] \in {"|", ")"} THEN ParseOk(acc, i, g)
        ELSE Rest(ParseRepeat(s, i, g))

\* an alternation of concatenations
ParseAlt(s, i, g) ==
    LET Both(left, right) ==
            IF right.err THEN ParseErr
            ELSE ParseOk([op |-> "alt", a |-> left.re, b |-> right.re], right.i, right.g)
        Alt(left) ==
            IF left.err THEN ParseErr
            ELSE IF left.i <= Len(s) /\ s[left.i] = "|"
            THEN Both(left, ParseAlt(s, left.i + 1, left.g))
            ELSE left
    IN  Alt(ParseConcat(s, i, g, [op |-> "empty"]))

\* regexp.Compile(expr): an error, or the tree and its number of groups
Compile(expr) ==
    LET Compiled(p) ==
            IF p.err \/ p.i <= Len(expr)               \* unexpected )
            THEN [err |-> TRUE, re |-> [op |-> "empty"], ng |-> 0]
            ELSE [err |-> FALSE, re |-> p.re, ng |-> p.g - 1]
    IN  Compiled(ParseAlt(expr, 1, 1))

\* ------------------------------------------------------------------------
\* Matching.  Go's regexp returns the leftmost match and, among those, the
\* one a backtracking search finds first.  Match(re, s, i, c) is the
\* sequence, in that search's order, of the ways re can match s starting at
\* position i: each an end position (the position after the match) and the
\* groups c updated with the spans <<start, end>> the match captured.
\* ------------------------------------------------------------------------
NoSpan == <<0, 0>>

RECURSIVE Flatten(_)
Flatten(seqs) == IF seqs = <<>> THEN <<>> ELSE Head(seqs) \o Flatten(Tail(seqs))

FlatMap(results, F(_)) == Flatten([k \in 1..Len(results) |-> F(results[k])])

RECURSIVE Match(_, _, _, _)
Match(re, s, i, c) ==
    LET here == <<[i |-> i, c |-> c]>>
        Step(ok) == IF i <= Len(s) /\ ok THEN <<[i |-> i + 1, c |-> c]>> ELSE <<>>
    IN
    CASE re.op = "empty" -> here
      [] re.op = "lit"   -> Step(i <= Len(s) /\ s[i] = re.ch)
      [] re.op = "any"   -> Step(TRUE)
      [] re.op = "class" -> Step(i <= Len(s) /\ s[i] \in re.set)
      [] re.op = "bol"   -> IF i = 1 THEN here ELSE <<>>
      [] re.op = "eol"   -> IF i = Len(s) + 1 THEN here ELSE <<>>
      [] re.op = "group" ->
           LET Close(r) == <<[i |-> r.i, c |-> [r.c EXCEPT ![re.n] = <<i, r.i>>]]>>
           IN  FlatMap(Match(re.a, s, i, c), Close)
      [] re.op = "cat"   ->
           LET Then(r) == Match(re.b, s, r.i, r.c)
           IN  FlatMap(Match(re.a, s, i, c), Then)
      [] re.op = "alt"   -> Match(re.a, s, i, c) \o Match(re.b, s, i, c)
      [] re.op = "quest" ->
           IF re.lazy THEN here \o Match(re.a, s, i, c)
           ELSE Match(re.a, s, i, c) \o here
      [] re.op = "star"  ->
           LET Again(r) == IF r.i > i THEN Match(re, s, r.i, r.c) ELSE <<>>
               more == FlatMap(Match(re.a, s, i, c), Again)
           IN  IF re.lazy THEN here \o more ELSE more \o here
      [] re.op = "plus"  ->
           LET Again(r) ==
                   Match([op |-> "star", a |-> re.a, lazy |-> re.lazy], s, r.i, r.c)
           IN  FlatMap(Match(re.a, s, i, c), Again)

\* the leftmost match of rx = [re, ng] in s that starts at or after position
\* pos: [found, start, end, c], end being the position after the match
RECURSIVE FindFrom(_, _, _)
FindFrom(rx, s, pos) ==
    LET First(ms) ==
            IF ms # <<>>
            THEN [found |-> TRUE, start |-> pos, end |-> ms[1].i, c |-> ms[1].c]
            ELSE FindFrom(rx, s, pos + 1)
    IN  IF pos > Len(s) + 1
        THEN [found |-> FALSE, start |-> 0, end |-> 0, c |-> <<>>]
        ELSE First(Match(rx.re, s, pos, [n \in 1..rx.ng |-> NoSpan]))

\* (*Regexp).MatchString: does the pattern match anywhere in s
MatchString(rx, s) == FindFrom(rx, s, 1).found

\* ------------------------------------------------------------------------
\* (*Regexp).expand: the template with $name and $$ interpreted.  A name is
\* the longest run of letters, digits and '_'; it refers to a numbered group
\* only when it is all digits ($0 is the whole match); a name that refers to
\* no group, or to a group that took no part in the match, expands to
\* nothing.  The patterns have no named groups.  ${name} is not used by the
\* templates here.
\* ------------------------------------------------------------------------
WordChars == Letters \cup Digits \cup {"_"}

\* the position after the longest run of word characters starting at i
RECURSIVE NameEnd(_, _)
NameEnd(t, i) ==
    IF i <= Len(t) /\ t[i] \in WordChars THEN NameEnd(t, i + 1) ELSE i

\* the number a name denotes, -1 when it is not a number
RECURSIVE NameNum(_, _)
NameNum(name, acc) ==
    IF name = <<>> THEN acc
    ELSE IF Head(name) \notin Digits THEN -1
    ELSE NameNum(Tail(name), acc * 10 + DigitVal(Head(name)))

\* the text group num captured in match m of src
GroupText(src, m, num) ==
    IF num = 0 THEN Slice(src, m.start, m.end - 1)
    ELSE IF num \in DOMAIN m.c /\ m.c[num] # NoSpan
    THEN Slice(src, m.c[num][1], m.c[num][2] - 1)
    ELSE <<>>

RECURSIVE Expand(_, _, _, _)
Expand(template, i, src, m) ==
    LET Group(num) == IF num >= 0 THEN GroupText(src, m, num) ELSE <<>>
        Name(e) ==
            IF e = i + 1
            THEN <<"$">> \o Expand(template, i + 1, src, m)    \* malformed: raw text
            ELSE Group(NameNum(Slice(template, i + 1, e - 1), 0))
                     \o Expand(template, e, src, m)
    IN  IF i > Len(template) THEN <<>>
        ELSE IF template[i] # "$" THEN <<template[i]>> \o Expand(template, i + 1, src, m)
        ELSE IF i + 1 <= Len(template) /\ template[i + 1] = "$"
        THEN <<"$">> \o Expand(template, i + 2, src, m)
        ELSE Name(NameEnd(template, i + 1))

\* ------------------------------------------------------------------------
\* (*Regexp).ReplaceAllString(src, repl): src with every non-overlapping
\* match replaced by the expansion of repl; the text between the matches,
\* before the first and after the last is copied unchanged.
\* lastMatchEnd and searchPos are the loop variables of regexp.replaceAll
\* (0-based offsets, as in Go).
\* ------------------------------------------------------------------------
RECURSIVE replaceAll(_, _, _, _, _)
replaceAll(rx, src, repl, lastMatchEnd, searchPos) ==
    LET Replaced(m) ==
            IF ~m.found THEN Slice(src, lastMatchEnd + 1, Len(src))
            ELSE LET a0 == m.start - 1
                     a1 == m.end - 1
                     width == IF searchPos < Len(src) THEN 1 ELSE 0
                     next == IF searchPos + width > a1 THEN searchPos + width
                             ELSE IF searchPos + 1 > a1 THEN searchPos + 1
                             ELSE a1
                 IN  Slice(src, lastMatchEnd + 1, a0)
                       \o (IF a1 > lastMatchEnd \/ a0 = 0
                           THEN Expand(repl, 1, src, m) ELSE <<>>)
                       \o replaceAll(rx, src, repl, a1, next)
    IN  IF searchPos > Len(src) THEN Slice(src, lastMatchEnd + 1, Len(src))
        ELSE Replaced(FindFrom(rx, src, searchPos + 1))

ReplaceAllString(rx, src, repl) == replaceAll(rx, src, repl, 0, 0)
\* ------------------------------------------------------------------------
\* net/url.  A URL value has the fields of url.URL the code reads or sets.
\* In a URL string the escape of a character is one symbol ("%3F" is the
\* escaped '?'); no other '%' occurs, and there is no userinfo or fragment.
\* ------------------------------------------------------------------------
URLErr ==
    [err |-> TRUE, Scheme |-> <<>>, Opaque |-> <<>>, Host |-> <<>>, Path |-> <<>>,
     RawQuery |-> <<>>, ForceQuery |-> FALSE, OmitHost |-> FALSE]

\* F applied to the value of v: v is evaluated once, before F is applied
Bind(F(_), v) == CHOOSE y \in {F(x) : x \in {v}} : TRUE

\* a URL value built field by field, as the composite literal &url.URL{...}
URLOf(scheme, host, path, rawQuery) ==
    [err |-> FALSE, Scheme |-> scheme, Opaque |-> <<>>, Host |-> host, Path |-> path,
     RawQuery |-> rawQuery, ForceQuery |-> FALSE, OmitHost |-> FALSE]

\* url.getScheme: [err, scheme, rest]
RECURSIVE getScheme(_, _)
getScheme(rawURL, i) ==
    IF i > Len(rawURL) THEN [err |-> FALSE, scheme |-> <<>>, rest |-> rawURL]
    ELSE LET c == rawURL[i] IN
         CASE c \in Letters -> getScheme(rawURL, i + 1)
           [] c \in Digits \cup {"+", "-", "."} ->
                IF i = 1 THEN [err |-> FALSE, scheme |-> <<>>, rest |-> rawURL]
                ELSE getScheme(rawURL, i + 1)
           [] c = ":" ->
                IF i = 1 THEN [err |-> TRUE, scheme |-> <<>>, rest |-> <<>>]
                ELSE [err |-> FALSE, scheme |-> Slice(rawURL, 1, i - 1),
                      rest |-> Slice(rawURL, i + 1, Len(rawURL))]
           [] OTHER -> [err |-> FALSE, scheme |-> <<>>, rest |-> rawURL]

\* position of the last occurrence of c in s, 0 when there is none
RECURSIVE LastIndex(_, _, _)
LastIndex(s, c, i) ==
    IF i = 0 THEN 0 ELSE IF s[i] = c THEN i ELSE LastIndex(s, c, i - 1)

Count(s, c) == Cardinality({k \in 1..Len(s) : s[k] = c})

\* url.validOptionalPort applied to the part of the host from its last ':'
validHost(host) ==
    LET k == LastIndex(host, ":", Len(host)) IN
    k = 0 \/ \A j \in (k + 1)..Len(host) : host[j] \in Digits

\* url.unescape / url.escape in encodePath mode: of the characters used here
\* only '?' is written escaped in a path
Unescape(c) == IF c = "%3F" THEN "?" ELSE c

EscapeChar(c) == IF c = "?" THEN "%3F" ELSE c

unescapePath(s) == [k \in 1..Len(s) |-> Unescape(s[k])]

escapePath(s) == [k \in 1..Len(s) |-> EscapeChar(s[k])]

\* url.Parse(rawURL): the scheme is split off, then the query, then the
\* authority of a rest that starts with "//"
Parse(rawURL) ==
    LET Authority(scheme, query, force, auth, k) ==
            LET host == IF k = 0 THEN auth ELSE Slice(auth, 1, k - 1)
                path == IF k = 0 THEN <<>> ELSE Slice(auth, k, Len(auth))
            IN  IF ~validHost(host) THEN URLErr     \* invalid port after host
                ELSE [URLErr EXCEPT !.err = FALSE, !.Scheme = scheme, !.Host = host,
                                    !.Path = unescapePath(path), !.RawQuery = query,
                                    !.ForceQuery = force]
        Slashes(scheme, query, force, auth) ==
            LET At(k) == Authority(scheme, query, force, auth, k)
            IN  Bind(At, IndexFrom(auth, "/", 1))
        Segment(rest, slash) == IF slash = 0 THEN rest ELSE Slice(rest, 1, slash - 1)
        Hier(scheme, rest, query, force, rooted) ==
            IF ~rooted /\ scheme # <<>>
            THEN [URLErr EXCEPT !.err = FALSE, !.Scheme = scheme, !.Opaque = rest,
                                !.RawQuery = query, !.ForceQuery = force]
            ELSE IF ~rooted /\ IndexFrom(Segment(rest, IndexFrom(rest, "/", 1)), ":", 1) # 0
            THEN URLErr                         \* first path segment cannot contain colon
            ELSE IF (scheme # <<>> \/ ~HasPrefix(rest, <<"/", "/", "/">>))
                    /\ HasPrefix(rest, <<"/", "/">>)
            THEN LET After(auth) == Slashes(scheme, query, force, auth)
                 IN  Bind(After, Slice(rest, 3, Len(rest)))
            ELSE [URLErr EXCEPT !.err = FALSE, !.Scheme = scheme,
                                !.Path = unescapePath(rest), !.RawQuery = query,
                                !.ForceQuery = force,
                                !.OmitHost = (scheme # <<>> /\ rooted)]
        Rooted(scheme, rest, query, force) ==
            Hier(scheme, rest, query, force, HasPrefix(rest, <<"/">>))
        Query(scheme, rem, force, q) ==
            LET Cut(parts) == Rooted(scheme, parts[1], parts[2], force)
            IN  Bind(Cut, <<IF force THEN Slice(rem, 1, Len(rem) - 1)
                            ELSE IF q = 0 THEN rem
                            ELSE Slice(rem, 1, q - 1),
                            IF force \/ q = 0 THEN <<>> ELSE Slice(rem, q + 1, Len(rem))>>)
        Scheme(sch) ==
            IF sch.err THEN URLErr                  \* missing protocol scheme
            ELSE LET Forced(force) == Query(sch.scheme, sch.rest, force,
                                            IndexFrom(sch.rest, "?", 1))
                 IN  Bind(Forced, sch.rest # <<>> /\ sch.rest[Len(sch.rest)] = "?"
                                      /\ Count(sch.rest, "?") = 1)
    IN  Bind(Scheme, getScheme(rawURL, 1))

\* (*URL).String()
String(u) ==
    LET Segment(path, slash) == IF slash = 0 THEN path ELSE Slice(path, 1, slash - 1)
        Written(scheme, auth, path) ==
            scheme
              \o (IF u.Opaque # <<>> THEN u.Opaque
                  ELSE auth
                       \o (IF path # <<>> /\ path[1] # "/" /\ u.Host # <<>>
                           THEN <<"/">> ELSE <<>>)
                       \o (IF scheme \o auth = <<>>
                              /\ IndexFrom(Segment(path, IndexFrom(path, "/", 1)), ":", 1) # 0
                           THEN <<".", "/">> ELSE <<>>)
                       \o path)
              \o (IF u.ForceQuery \/ u.RawQuery # <<>> THEN <<"?">> \o u.RawQuery ELSE <<>>)
    IN  Written(IF u.Scheme # <<>> THEN u.Scheme \o <<":">> ELSE <<>>,
                IF u.Scheme # <<>> \/ u.Host # <<>>
                THEN IF u.OmitHost /\ u.Host = <<>> THEN <<>>
                     ELSE (IF u.Host # <<>> \/ u.Path # <<>> THEN <<"/", "/">> ELSE <<>>)
                          \o u.Host
                ELSE <<>>,
                escapePath(u.Path))
\* ------------------------------------------------------------------------
\* The routing proxy, src/main.go lines 1-266
\* ------------------------------------------------------------------------

\* Inputs.  Request paths are r.URL.Path as net/http hands it to the
\* handler: decoded, starting with '/'; a '?' in it arrived as %3F.
PathChars == {"/", "a", "1", "?"}

QueryChars == {"a", "1"}

Paths == {<<"/">> \o t : t \in SeqsUpTo(PathChars, MaxPathLen - 1)}

Queries == SeqsUpTo(QueryChars, MaxQueryLen)

\* method, headers, client address and body of a request
Envelopes ==
    { [Method |-> "GET",  Header |-> [UserAgent |-> <<"ua">>, XForwardedFor |-> <<>>],
       RemoteAddr |-> "client", Body |-> <<>>],
      [Method |-> "POST", Header |-> [UserAgent |-> <<>>, XForwardedFor |-> <<"spoof">>],
       RemoteAddr |-> "client", Body |-> <<"payload">>],
      [Method |-> "GET",  Header |-> [UserAgent |-> <<"ua", "ub">>, XForwardedFor |-> <<"spoof">>],
       RemoteAddr |-> "", Body |-> <<>>] }

Request(path, query, env) ==
    [Method |-> env.Method, Path |-> path, RawQuery |-> query, Header |-> env.Header,
     RemoteAddr |-> env.RemoteAddr, Body |-> env.Body]

Requests == {Request(p, q, e) : p \in Paths, q \in Queries, e \in Envelopes}

NoRequest == Request(<<>>, <<>>, [Method |-> "", Header |-> [UserAgent |-> <<>>, XForwardedFor |-> <<>>],
                                  RemoteAddr |-> "", Body |-> <<>>])

\* Path mappings of the configuration file, small versions of README's
\*   from: /test/(\d+)      to: https://mapped.com/item/$1
\*   from: .*/(\d+)\.x/...  to: https://github.com/.../$1/...
MapDigit == [From |-> <<"/", "a", "(", "\\", "d", ")">>,
             To   |-> <<"h", "t", "t", "p", ":", "/", "/", "m", "/", "$", "1">>]

MapPrefix == [From |-> <<".", "*", "/", "(", "\\", "d", "+", ")">>,
              To   |-> <<"h", "t", "t", "p", ":", "/", "/", "p", "/", "$", "1">>]

MapLetter == [From |-> <<"a">>,
              To   |-> <<"h", "t", "t", "p", ":", "/", "/", "x", "/">>]

MapAnchored == [From |-> <<"^", "/", "a", "$">>,
                To   |-> <<"h", "t", "t", "p", ":", "/", "/", "e", "/">>]

MapOptional == [From |-> <<"^", "/", "(", "a", ")", "?", "(", "1", ")", "?", "$">>,
                To   |-> <<"h", "t", "t", "p", ":", "/", "/", "o", "/", "$", "1", "-", "$", "2">>]

MapUnclosed == [From |-> <<"[", "a", "(">>,
                To   |-> <<"h", "t", "t", "p", ":", "/", "/", "u">>]

\* a mapping whose template puts the captured text after the host's ':', so
\* that the URL it produces parses only when that text is a port number
MapPort == [From |-> <<"/", "a", "(", ".", ")">>,
            To   |-> <<"h", "t", "t", "p", ":", "/", "/", "m", ":", "$", "1">>]

MappingLists ==
    { <<>>,
      <<MapDigit>>,
      <<MapDigit, MapLetter>>,
      <<MapLetter, MapDigit>>,
      <<MapAnchored, MapPrefix>>,
      <<MapOptional>>,
      <<MapPort>>,
      <<MapUnclosed>>,
      <<MapDigit, MapUnclosed>>,
      <<MapUnclosed, MapLetter>> }

\* default_host values: none, a base URL, one without scheme, one that does
\* not parse ("://d", as "://invalid" in TestReplaceHost)
DefaultHosts ==
    { <<>>,
      <<"h", "t", "t", "p", ":", "/", "/", "d">>,
      <<"d">>,
      <<":", "/", "/", "d">> }

Configs ==
    [DefaultHost : DefaultHosts, PathMappings : MappingLists, FollowRedirects : BOOLEAN]

\* What an upstream can do with one outbound request: no response at all
\* (connection refused, DNS failure, timeout: status 0 here) or a response
\* with one of these status codes.
Statuses == {200, 404, 500}

NoResponse == 0

Outcomes == {NoResponse} \cup Statuses

\* the response an upstream gives to the outbound request sent to url: its
\* headers and body name the URL that was asked
Response(url, st) ==
    [StatusCode |-> st, Header |-> [XServedBy |-> <<url>>], Body |-> <<"body of", url>>]

NoHeader == [XServedBy |-> <<>>]

StatusBadGateway == 502

StatusInternalServerError == 500

StatusNotFound == 404

\* NewProxy: the compiled mappings in configured order, or an error at the
\* first pattern that does not compile
RECURSIVE compileAll(_, _)
compileAll(mappings, compiled) ==
    LET Compiled(regex) ==
            IF regex.err THEN [err |-> TRUE, compiled |-> <<>>]
            ELSE compileAll(Tail(mappings),
                            Append(compiled, [regex |-> [re |-> regex.re, ng |-> regex.ng],
                                              to |-> Head(mappings).To]))
    IN  IF mappings = <<>> THEN [err |-> FALSE, compiled |-> compiled]
        ELSE Compiled(Compile(Head(mappings).From))

NoProxy ==
    [ok |-> FALSE, defaultHost |-> <<>>, compiledMappings |-> <<>>, followRedirects |-> FALSE]

\* mutant: a pattern that does not compile is skipped instead of failing
RECURSIVE compileValid(_, _)
compileValid(mappings, compiled) ==
    LET Compiled(regex) ==
            compileValid(Tail(mappings),
                         IF regex.err THEN compiled
                         ELSE Append(compiled, [regex |-> [re |-> regex.re, ng |-> regex.ng],
                                                to |-> Head(mappings).To]))
    IN  IF mappings = <<>> THEN compiled
        ELSE Compiled(Compile(Head(mappings).From))

NewProxy_SkipInvalid(defaultHost, mappings, followRedirects) ==
    [ok |-> TRUE, defaultHost |-> defaultHost,
     compiledMappings |-> compileValid(mappings, <<>>),
     followRedirects |-> followRedirects]

NewProxy(defaultHost, mappings, followRedirects) ==
    LET Built(c) ==
            IF c.err THEN NoProxy
            ELSE [ok |-> TRUE, defaultHost |-> defaultHost,
                  compiledMappings |-> c.compiled, followRedirects |-> followRedirects]
    IN  Built(compileAll(mappings, <<>>))

\* findMapping: the first mapping, in order from index i, whose regex matches
\* path, and the result of ReplaceAllString with its template
RECURSIVE findMappingFrom(_, _, _)
findMappingFrom(compiledMappings, i, path) ==
    IF i > Len(compiledMappings) THEN [found |-> FALSE, result |-> <<>>]
    ELSE LET mapping == compiledMappings[i] IN
         IF MatchString(mapping.regex, path)
         THEN [found |-> TRUE,
               result |-> ReplaceAllString(mapping.regex, path, mapping.to)]
         ELSE findMappingFrom(compiledMappings, i + 1, path)

\* mutant: the last matching mapping wins
RECURSIVE findMappingDown(_, _, _)
findMappingDown(compiledMappings, i, path) ==
    IF i = 0 THEN [found |-> FALSE, result |-> <<>>]
    ELSE LET mapping == compiledMappings[i] IN
         IF MatchString(mapping.regex, path)
         THEN [found |-> TRUE,
               result |-> ReplaceAllString(mapping.regex, path, mapping.to)]
         ELSE findMappingDown(compiledMappings, i - 1, path)

findMapping_LastMatch(p, path) ==
    findMappingDown(p.compiledMappings, Len(p.compiledMappings), path)

findMapping(p, path) == findMappingFrom(p.compiledMappings, 1, path)

\* the string buildTargetURL hands to findMapping
originalPath(r) ==
    IF r.RawQuery # <<>> THEN r.Path \o <<"?">> \o r.RawQuery ELSE r.Path

\* mutant: the fallback URL is built without the request's query
buildTargetURL_DropQuery(p, r) ==
    LET Fallback(parsed) ==
            IF parsed.err THEN [err |-> TRUE, url |-> <<>>]
            ELSE [err |-> FALSE,
                  url |-> String(URLOf(parsed.Scheme, parsed.Host, r.Path, <<>>))]
        Resolved(m) ==
            IF m.found THEN [err |-> FALSE, url |-> m.result]
            ELSE IF p.defaultHost = <<>> THEN [err |-> TRUE, url |-> <<>>]
            ELSE Fallback(Parse(p.defaultHost))
    IN  Resolved(findMappingFrom(p.compiledMappings, 1, originalPath(r)))

\* mutant: an empty default host is not rejected
buildTargetURL_NoEmptyCheck(p, r) ==
    LET Fallback(parsed) ==
            IF parsed.err THEN [err |-> TRUE, url |-> <<>>]
            ELSE [err |-> FALSE,
                  url |-> String(URLOf(parsed.Scheme, parsed.Host, r.Path, r.RawQuery))]
        Resolved(m) ==
            IF m.found THEN [err |-> FALSE, url |-> m.result]
            ELSE Fallback(Parse(p.defaultHost))
    IN  Resolved(findMappingFrom(p.compiledMappings, 1, originalPath(r)))

\* buildTargetURL: [err, url]
buildTargetURL(p, r) ==
    LET Fallback(parsed) ==
            IF parsed.err THEN [err |-> TRUE, url |-> <<>>]     \* invalid default host
            ELSE [err |-> FALSE,
                  url |-> String(URLOf(parsed.Scheme, parsed.Host, r.Path, r.RawQuery))]
        Resolved(m) ==
            IF m.found THEN [err |-> FALSE, url |-> m.result]
            ELSE IF p.defaultHost = <<>> THEN [err |-> TRUE, url |-> <<>>]
            ELSE Fallback(Parse(p.defaultHost))
    IN  Resolved(findMapping(p, originalPath(r)))

\* http.NewRequest(method, url, body): fails when the URL does not parse
NewRequestFails(targetURL) == Parse(targetURL).err

\* mutant: the client address is added after the values the client sent
proxyHeader_Append(r) ==
    IF r.RemoteAddr # ""
    THEN [r.Header EXCEPT !.XForwardedFor = @ \o <<r.RemoteAddr>>]
    ELSE r.Header

\* mutant: only the first value of a header is copied
proxyHeader_FirstValue(r) ==
    [UserAgent |-> Slice(r.Header.UserAgent, 1, 1),
     XForwardedFor |-> IF r.RemoteAddr # "" THEN <<r.RemoteAddr>>
                       ELSE Slice(r.Header.XForwardedFor, 1, 1)]

\* the headers of the outbound request: every value of the original request
\* added, then X-Forwarded-For set to the client address when there is one
proxyHeader(r) ==
    IF r.RemoteAddr # ""
    THEN [r.Header EXCEPT !.XForwardedFor = <<r.RemoteAddr>>]
    ELSE r.Header

\* (*http.Client).Do never reaches the network for a URL that is not an
\* absolute http(s) URL with a host
Sendable(targetURL) ==
    LET Absolute(u) ==
            /\ ~u.err
            /\ u.Scheme \in {<<"h", "t", "t", "p">>, <<"h", "t", "t", "p", "s">>}
            /\ u.Host # <<>>
    IN  Bind(Absolute, Parse(targetURL))

\* what http.Error(w, msg, code) writes to the client
ErrorReply(code, msg) ==
    [written |-> 1, status |-> code, header |-> NoHeader, body |-> <<msg>>]

\* mutant: a 5xx response is turned into a gateway error
RelayReply_Gateway(resp) ==
    IF resp.StatusCode >= 500
    THEN ErrorReply(StatusBadGateway, "Failed to reach target server")
    ELSE [written |-> 1, status |-> resp.StatusCode, header |-> resp.Header,
          body |-> resp.Body]

\* what the handler writes when it relays resp
RelayReply(resp) ==
    [written |-> 1, status |-> resp.StatusCode, header |-> resp.Header, body |-> resp.Body]

NoReply == [written |-> 0, status |-> 0, header |-> NoHeader, body |-> <<>>]

NoTarget == [err |-> FALSE, url |-> <<>>]

VARIABLES
    config,      \* the configuration main loaded
    mainPc,      \* "start", "listening" (http.ListenAndServe runs) or "exited"
    proxy,       \* the *Proxy main created, NoProxy before and on failure
    req,         \* the request of the last ServeHTTP call
    target,      \* what buildTargetURL returned for it
    outbound,    \* the outbound requests handed to client.Do for it, in order
    reply,       \* what was written to its http.ResponseWriter
    handled      \* whether req, target, outbound, reply hold a finished exchange

routerVars == <<config, mainPc, proxy, req, target, outbound, reply, handled>>

RouterInit ==
    /\ config \in Configs
    /\ mainPc = "start"
    /\ proxy = NoProxy
    /\ req = NoRequest
    /\ target = NoTarget
    /\ outbound = <<>>
    /\ reply = NoReply
    /\ handled = FALSE

\* main, lines 240-265: create the proxy; log.Fatalf exits when NewProxy
\* fails, otherwise the server starts listening
Main ==
    /\ mainPc = "start"
    /\ LET p == NewProxy(config.DefaultHost, config.PathMappings, config.FollowRedirects) IN
       /\ proxy' = p
       /\ mainPc' = IF p.ok THEN "listening" ELSE "exited"
    /\ UNCHANGED <<config, req, target, outbound, reply, handled>>

\* ServeHTTP, lines 115-172, for request r, the upstream answering the
\* outbound request (if one is sent) with outcome
ServeHTTP(r, outcome) ==
    /\ mainPc = "listening"
    /\ ~handled
    /\ \E targetURL \in {buildTargetURL(proxy, r)} :
       LET proxyReq == [Method |-> r.Method, URL |-> targetURL.url,
                        Header |-> proxyHeader(r), Body |-> r.Body]
       IN
       /\ req' = r
       /\ handled' = TRUE
       /\ target' = targetURL
       /\ IF targetURL.err
          THEN /\ reply' = ErrorReply(StatusBadGateway, "Failed to build target URL")
               /\ outbound' = <<>>
          ELSE IF NewRequestFails(targetURL.url)
          THEN /\ reply' = ErrorReply(StatusInternalServerError, "Failed to create proxy request")
               /\ outbound' = <<>>
          ELSE /\ outbound' = <<proxyReq>>
               /\ IF ~Sendable(targetURL.url) \/ outcome = NoResponse
                  THEN reply' = ErrorReply(StatusBadGateway, "Failed to reach target server")
                  ELSE reply' = RelayReply(Response(targetURL.url, outcome))
    /\ UNCHANGED <<config, mainPc, proxy>>

\* the exchange is over: the request, its ResponseWriter and the handler's
\* locals are gone, the server waits for the next request
ExchangeEnds ==
    /\ handled
    /\ req' = NoRequest
    /\ target' = NoTarget
    /\ outbound' = <<>>
    /\ reply' = NoReply
    /\ handled' = FALSE
    /\ UNCHANGED <<config, mainPc, proxy>>

\* ------------------------------------------------------------------------
\* The mirror proxy, src/main.go lines 567-739
\* ------------------------------------------------------------------------

\* mirror base URLs: two hosts and one that does not parse ("://invalid" in
\* TestReplaceHost)
MirrorM == <<"h", "t", "t", "p", ":", "/", "/", "m">>

MirrorN == <<"h", "t", "t", "p", "s", ":", "/", "/", "n">>

MirrorInvalid == <<":", "/", "/", "i">>

MirrorLists == SeqsUpTo({MirrorM, MirrorN, MirrorInvalid}, MaxMirrors)

\* Requests to the mirror proxy: r.URL is absolute when the client uses the
\* proxy as a forward proxy (Scheme set), otherwise only path and query are
\* set and r.Host names the origin.
\* the hosts requests are addressed to: one that is no mirror, and the host
\* of MirrorM
OriginHosts == {<<"o">>, <<"m">>}

MirrorPaths == {<<"/">>, <<"/", "a">>, <<"/", "a", "?">>}

MirrorQueries == {<<>>, <<"a">>}

MirrorSchemes == {<<>>, <<"h", "t", "t", "p">>}

MirrorRequest(scheme, host, path, query, env) ==
    [Method |-> env.Method,
     URL |-> URLOf(scheme, IF scheme = <<>> THEN <<>> ELSE host, path, query),
     Host |-> host, Header |-> env.Header, RemoteAddr |-> env.RemoteAddr,
     Body |-> env.Body]

MirrorRequests ==
    {MirrorRequest(sc, h, p, q, e) :
        sc \in MirrorSchemes, h \in OriginHosts, p \in MirrorPaths,
        q \in MirrorQueries, e \in Envelopes}

NoMirrorRequest ==
    MirrorRequest(<<>>, <<>>, <<>>, <<>>,
                  [Method |-> "", Header |-> [UserAgent |-> <<>>, XForwardedFor |-> <<>>],
                   RemoteAddr |-> "", Body |-> <<>>])

\* lines 637-644: the target URL of a request
mirrorTargetURL(r) ==
    IF r.URL.Scheme = <<>>
    THEN <<"h", "t", "t", "p", ":", "/", "/">> \o r.Host \o r.URL.Path
           \o (IF r.URL.RawQuery # <<>> THEN <<"?">> \o r.URL.RawQuery ELSE <<>>)
    ELSE String(r.URL)

\* mutant: the query is lost when the host is replaced
replaceHost_DropQuery(originalURL, newHost) ==
    LET Replaced(parsed, mirrorParsed) ==
            IF parsed.err THEN [err |-> TRUE, url |-> <<>>]
            ELSE IF mirrorParsed.err THEN [err |-> TRUE, url |-> <<>>]
            ELSE [err |-> FALSE,
                  url |-> Bind(String, [parsed EXCEPT !.Scheme = mirrorParsed.Scheme,
                                                      !.Host = mirrorParsed.Host,
                                                      !.RawQuery = <<>>,
                                                      !.ForceQuery = FALSE])]
        Both(parsed) == LET With(mirrorParsed) == Replaced(parsed, mirrorParsed)
                        IN  Bind(With, Parse(newHost))
    IN  Bind(Both, Parse(originalURL))

\* replaceHost: [err, url]
replaceHost(originalURL, newHost) ==
    LET Replaced(parsed, mirrorParsed) ==
            IF parsed.err THEN [err |-> TRUE, url |-> <<>>]
            ELSE IF mirrorParsed.err THEN [err |-> TRUE, url |-> <<>>]
            ELSE [err |-> FALSE,
                  url |-> Bind(String, [parsed EXCEPT !.Scheme = mirrorParsed.Scheme,
                                                      !.Host = mirrorParsed.Host])]
        Both(parsed) == LET With(mirrorParsed) == Replaced(parsed, mirrorParsed)
                        IN  Bind(With, Parse(newHost))
    IN  Bind(Both, Parse(originalURL))

\* tryRequest builds its outbound request with a nil body
tryRequestReq(targetURL, r) ==
    [Method |-> r.Method, URL |-> targetURL, Header |-> proxyHeader(r), Body |-> <<>>]

\* client.Do has not returned yet
Pending == -1

\* one outbound attempt: the request handed to client.Do, the mirror it was
\* for (0: the primary target) and its result (Pending while in flight,
\* NoResponse, or the status code of the response)
Attempt(targetURL, r, mirror) ==
    [req |-> tryRequestReq(targetURL, r), mirror |-> mirror, result |-> Pending]

VARIABLES
    mirrors,     \* p.mirrors
    mpc,         \* "idle", "primary" / "mirror" (an attempt is in flight), "done"
    mreq,        \* the request being handled
    mtarget,     \* targetURL
    mattempts,   \* the outbound attempts of this request, in the order made
    mresp,       \* resp: the index in mattempts of the response it holds, 0: none
    mclosed,     \* the attempts whose response body has been closed
    mreply,      \* what was written to the http.ResponseWriter
    mclientGone  \* the client closed its connection (r.Context() is done)

mirrorVars == <<mirrors, mpc, mreq, mtarget, mattempts, mresp, mclosed, mreply, mclientGone>>

\* ------------------------------------------------------------------------
\* Concurrent calls of the routing proxy's ServeHTTP.  net/http runs every
\* request in a goroutine of its own; the calls share the *Proxy and
\* nothing else, each has its own r and targetURL.
\* ------------------------------------------------------------------------
Calls == 1..MaxCalls

\* the requests of the concurrent calls: unmapped, mapped by one mapping or
\* another, with and without a query
CallRequests ==
    {Request(p, q, [Method |-> "GET", Header |-> [UserAgent |-> <<"ua">>, XForwardedFor |-> <<>>],
                    RemoteAddr |-> "client", Body |-> <<>>]) :
        p \in {<<"/">>, <<"/", "a", "1">>, <<"/", "a", "a">>}, q \in {<<>>, <<"1">>}}

VARIABLES
    cpc,         \* per call: "idle", "resolving" (before line 118), "forwarding"
    creq,        \* per call: r
    ctarget      \* per call: what buildTargetURL returned

callVars == <<cpc, creq, ctarget>>

CallsIdle ==
    /\ cpc = [c \in Calls |-> "idle"]
    /\ creq = [c \in Calls |-> NoRequest]
    /\ ctarget = [c \in Calls |-> NoTarget]

\* net/http starts call c of ServeHTTP for request r
CallBegins(c, r) ==
    /\ mainPc = "listening"
    /\ cpc[c] = "idle"
    /\ cpc' = [cpc EXCEPT ![c] = "resolving"]
    /\ creq' = [creq EXCEPT ![c] = r]
    /\ UNCHANGED <<ctarget, proxy>>

\* mutant: resolving a request stores the resolved URL as the default host
CallResolves_Remember(c) ==
    /\ cpc[c] = "resolving"
    /\ \E targetURL \in {buildTargetURL(proxy, creq[c])} :
       /\ ctarget' = [ctarget EXCEPT ![c] = targetURL]
       /\ proxy' = [proxy EXCEPT !.defaultHost = targetURL.url]
    /\ cpc' = [cpc EXCEPT ![c] = "forwarding"]
    /\ UNCHANGED creq

\* line 118 of call c: buildTargetURL reads p.compiledMappings and
\* p.defaultHost; neither it nor findMapping assigns a field of p
CallResolves(c) ==
    /\ cpc[c] = "resolving"
    /\ ctarget' = [ctarget EXCEPT ![c] = buildTargetURL(proxy, creq[c])]
    /\ cpc' = [cpc EXCEPT ![c] = "forwarding"]
    /\ UNCHANGED <<creq, proxy>>

\* lines 120-171 of call c: the rest of the handler, which uses targetURL
\* and p.client only, and its return
CallReturns(c) ==
    /\ cpc[c] = "forwarding"
    /\ cpc' = [cpc EXCEPT ![c] = "idle"]
    /\ creq' = [creq EXCEPT ![c] = NoRequest]
    /\ ctarget' = [ctarget EXCEPT ![c] = NoTarget]
    /\ UNCHANGED proxy

vars == <<routerVars, mirrorVars, callVars>>

MirrorIdle ==
    /\ mpc = "idle"
    /\ mreq = NoMirrorRequest
    /\ mtarget = <<>>
    /\ mattempts = <<>>
    /\ mresp = 0
    /\ mclosed = {}
    /\ mreply = NoReply
    /\ mclientGone = FALSE

\* mutant: the response relayed is always the primary's
relay_Primary(k, attempts, closed) ==
    /\ mreply' = [RelayReply(Response(attempts[1].req.URL, attempts[1].result))
                    EXCEPT !.body = IF 1 \in closed THEN <<>> ELSE @]
    /\ mresp' = 1
    /\ mclosed' = closed \cup {1}
    /\ mattempts' = attempts
    /\ mpc' = "done"

\* lines 685-701: relay the response of attempt k; a body that was closed
\* before yields nothing to copy; the deferred Close runs on return
relay(k, attempts, closed) ==
    /\ mreply' = [RelayReply(Response(attempts[k].req.URL, attempts[k].result))
                    EXCEPT !.body = IF k \in closed THEN <<>> ELSE @]
    /\ mresp' = k
    /\ mclosed' = closed \cup {k}
    /\ mattempts' = attempts
    /\ mpc' = "done"

\* mutant: the mirrors are tried from the end of the list
nextMirror_Last(ms, targetURL, i) ==
    LET usable == {j \in i..Len(ms) :
                      /\ ~replaceHost(targetURL, ms[j]).err
                      /\ ~NewRequestFails(replaceHost(targetURL, ms[j]).url)}
    IN  IF usable = {} THEN 0 ELSE CHOOSE j \in usable : \A k \in usable : k <= j

\* mutant: after the last mirror the loop starts over with the first
nextMirror_Wrap(ms, targetURL, i) ==
    LET usable == {j \in 1..Len(ms) :
                      /\ ~replaceHost(targetURL, ms[j]).err
                      /\ ~NewRequestFails(replaceHost(targetURL, ms[j]).url)}
        ahead == {j \in usable : j >= i}
        from == IF ahead = {} THEN usable ELSE ahead
    IN  IF usable = {} THEN 0 ELSE CHOOSE j \in from : \A k \in from : j <= k

\* the first mirror at or after index i for which a request can be made
\* (replaceHost succeeds and tryRequest can build the request), 0 if none
RECURSIVE nextMirror(_, _, _)
nextMirror(ms, targetURL, i) ==
    LET Usable(mirrorURL) ==
            IF mirrorURL.err \/ NewRequestFails(mirrorURL.url)
            THEN nextMirror(ms, targetURL, i + 1)
            ELSE i
    IN  IF i > Len(ms) THEN 0
        ELSE Bind(Usable, replaceHost(targetURL, ms[i]))

\* mutant: when no mirror is left the client is answered 502
tryMirrors_GiveUp(i, k, attempts, closed) ==
    \E j \in {nextMirror(mirrors, mtarget, i)} :
       IF j = 0
       THEN /\ mreply' = ErrorReply(StatusBadGateway, "Failed to reach target server")
            /\ mattempts' = attempts
            /\ mpc' = "done"
            /\ mresp' = k
            /\ mclosed' = closed
       ELSE /\ mattempts' = Append(attempts,
                                   Attempt(replaceHost(mtarget, mirrors[j]).url, mreq, j))
            /\ mpc' = "mirror"
            /\ mresp' = k
            /\ mclosed' = closed
            /\ UNCHANGED mreply

\* lines 659-683, from mirror index i on: start the attempt against the next
\* usable mirror, or leave the loop and relay resp (attempt k)
tryMirrors(i, k, attempts, closed) ==
    \E j \in {nextMirror(mirrors, mtarget, i)} :
       IF j = 0 THEN relay(k, attempts, closed)
       ELSE /\ mattempts' = Append(attempts,
                                   Attempt(replaceHost(mtarget, mirrors[j]).url, mreq, j))
            /\ mpc' = "mirror"
            /\ mresp' = k
            /\ mclosed' = closed
            /\ UNCHANGED mreply

\* ServeHTTP begins, lines 634-647: the target URL and the primary attempt
MirrorServeHTTP(r) ==
    /\ mpc = "idle"
    /\ mreq' = r
    /\ mresp' = 0
    /\ mclosed' = {}
    /\ \E targetURL \in {mirrorTargetURL(r)} :
       /\ mtarget' = targetURL
       /\ IF NewRequestFails(targetURL)
          THEN /\ mattempts' = <<>>
               /\ mreply' = ErrorReply(StatusBadGateway, "Failed to reach target server")
               /\ mpc' = "done"
          ELSE /\ mattempts' = <<Attempt(targetURL, r, 0)>>
               /\ mreply' = NoReply
               /\ mpc' = "primary"
    /\ UNCHANGED <<mirrors, mclientGone>>

\* mutant: a primary attempt that got no response falls over to the mirrors
PrimaryReturns_Failover(outcome) ==
    /\ mpc = "primary"
    /\ \E res \in {IF Sendable(mtarget) THEN outcome ELSE NoResponse} :
       \E attempts \in {[mattempts EXCEPT ![1].result = res]} :
          IF res \in {NoResponse, StatusNotFound} /\ Len(mirrors) > 0
          THEN tryMirrors(1, 1, attempts, {1})
          ELSE IF res = NoResponse
          THEN /\ mreply' = ErrorReply(StatusBadGateway, "Failed to reach target server")
               /\ mattempts' = attempts
               /\ mpc' = "done"
               /\ UNCHANGED <<mresp, mclosed>>
          ELSE relay(1, attempts, mclosed)
    /\ UNCHANGED <<mirrors, mreq, mtarget, mclientGone>>

\* the primary attempt returns, lines 647-657
PrimaryReturns(outcome) ==
    /\ mpc = "primary"
    /\ \E res \in {IF Sendable(mtarget) THEN outcome ELSE NoResponse} :
       \E attempts \in {[mattempts EXCEPT ![1].result = res]} :
          IF res = NoResponse
          THEN /\ mreply' = ErrorReply(StatusBadGateway, "Failed to reach target server")
               /\ mattempts' = attempts
               /\ mpc' = "done"
               /\ UNCHANGED <<mresp, mclosed>>
          ELSE IF res = StatusNotFound /\ Len(mirrors) > 0
          THEN tryMirrors(1, 1, attempts, {1})
          ELSE relay(1, attempts, mclosed)
    /\ UNCHANGED <<mirrors, mreq, mtarget, mclientGone>>

\* mutant: a mirror attempt that gets no response ends the request with 502
MirrorReturns_Abort(outcome) ==
    /\ mpc = "mirror"
    /\ \E n \in {Len(mattempts)} :
       \E res \in {IF Sendable(mattempts[n].req.URL) THEN outcome ELSE NoResponse} :
       \E attempts \in {[mattempts EXCEPT ![n].result = res]} :
       \E i \in {mattempts[n].mirror} :
          IF res = NoResponse
          THEN /\ mreply' = ErrorReply(StatusBadGateway, "Failed to reach target server")
               /\ mattempts' = attempts
               /\ mpc' = "done"
               /\ UNCHANGED <<mresp, mclosed>>
          ELSE IF res # StatusNotFound
          THEN relay(n, attempts, mclosed)
          ELSE tryMirrors(i + 1, mresp, attempts, mclosed \cup {n})
    /\ UNCHANGED <<mirrors, mreq, mtarget, mclientGone>>

\* mutant: the body of a mirror's 404 response is not closed
MirrorReturns_Leak(outcome) ==
    /\ mpc = "mirror"
    /\ \E n \in {Len(mattempts)} :
       \E res \in {IF Sendable(mattempts[n].req.URL) THEN outcome ELSE NoResponse} :
       \E attempts \in {[mattempts EXCEPT ![n].result = res]} :
       \E i \in {mattempts[n].mirror} :
          IF res = NoResponse \/ res = StatusNotFound
          THEN tryMirrors(i + 1, mresp, attempts, mclosed)
          ELSE relay(n, attempts, mclosed)
    /\ UNCHANGED <<mirrors, mreq, mtarget, mclientGone>>

\* a mirror attempt returns, lines 667-682
MirrorReturns(outcome) ==
    /\ mpc = "mirror"
    /\ \E n \in {Len(mattempts)} :
       \E res \in {IF Sendable(mattempts[n].req.URL) THEN outcome ELSE NoResponse} :
       \E attempts \in {[mattempts EXCEPT ![n].result = res]} :
       \E i \in {mattempts[n].mirror} :
          IF res = NoResponse
          THEN tryMirrors(i + 1, mresp, attempts, mclosed)
          ELSE IF res # StatusNotFound
          THEN relay(n, attempts, mclosed)
          ELSE tryMirrors(i + 1, mresp, attempts, mclosed \cup {n})
    /\ UNCHANGED <<mirrors, mreq, mtarget, mclientGone>>

\* the exchange is over, the server waits for the next request
MirrorExchangeEnds ==
    /\ mpc = "done"
    /\ mpc' = "idle"
    /\ mreq' = NoMirrorRequest
    /\ mtarget' = <<>>
    /\ mattempts' = <<>>
    /\ mresp' = 0
    /\ mclosed' = {}
    /\ mreply' = NoReply
    /\ mclientGone' = FALSE
    /\ UNCHANGED mirrors

\* the client closes its connection while an attempt is in flight.  The
\* outbound requests are built by http.NewRequest, without the context of
\* the client's request, so nothing in the handler observes it.
ClientCloses ==
    /\ mpc \in {"primary", "mirror"}
    /\ ~mclientGone
    /\ mclientGone' = TRUE
    /\ UNCHANGED <<mirrors, mpc, mreq, mtarget, mattempts, mresp, mclosed, mreply>>

\* ------------------------------------------------------------------------
\* Specifications
\* ------------------------------------------------------------------------
Init == RouterInit /\ mirrors = <<>> /\ MirrorIdle /\ CallsIdle

Next ==
    \/ Main /\ UNCHANGED <<mirrorVars, callVars>>
    \/ \E r \in Requests, outcome \in Outcomes :
          ServeHTTP(r, outcome) /\ UNCHANGED <<mirrorVars, callVars>>
    \/ ExchangeEnds /\ UNCHANGED <<mirrorVars, callVars>>

Spec == Init /\ [][Next]_vars

RouterIdle ==
    /\ config = [DefaultHost |-> <<>>, PathMappings |-> <<>>, FollowRedirects |-> FALSE]
    /\ mainPc = "start"
    /\ proxy = NoProxy
    /\ req = NoRequest
    /\ target = NoTarget
    /\ outbound = <<>>
    /\ reply = NoReply
    /\ handled = FALSE

MirrorInit == RouterIdle /\ mirrors \in MirrorLists /\ MirrorIdle /\ CallsIdle

MirrorNext ==
    \/ \E r \in MirrorRequests : MirrorServeHTTP(r) /\ UNCHANGED <<routerVars, callVars>>
    \/ \E outcome \in Outcomes : PrimaryReturns(outcome) /\ UNCHANGED <<routerVars, callVars>>
    \/ \E outcome \in Outcomes : MirrorReturns(outcome) /\ UNCHANGED <<routerVars, callVars>>
    \/ MirrorExchangeEnds /\ UNCHANGED <<routerVars, callVars>>
    \/ ClientCloses /\ UNCHANGED <<routerVars, callVars>>

MirrorSpec == MirrorInit /\ [][MirrorNext]_vars

\* the mirror proxy when every outbound attempt ends (a response, a
\* transport error, or the 30 s timeout of the client)
FairMirrorSpec ==
    /\ MirrorSpec
    /\ WF_vars(\E outcome \in Outcomes : PrimaryReturns(outcome) /\ UNCHANGED <<routerVars, callVars>>)
    /\ WF_vars(\E outcome \in Outcomes : MirrorReturns(outcome) /\ UNCHANGED <<routerVars, callVars>>)

\* the routing proxy serving concurrent calls
CallInit == RouterInit /\ mirrors = <<>> /\ MirrorIdle /\ CallsIdle

CallNext ==
    \/ Main /\ UNCHANGED <<mirrorVars, callVars>>
    \/ \E c \in Calls, r \in CallRequests :
          CallBegins(c, r) /\ UNCHANGED <<config, mainPc, req, target, outbound, reply, handled, mirrorVars>>
    \/ \E c \in Calls :
          CallResolves(c) /\ UNCHANGED <<config, mainPc, req, target, outbound, reply, handled, mirrorVars>>
    \/ \E c \in Calls :
          CallReturns(c) /\ UNCHANGED <<config, mainPc, req, target, outbound, reply, handled, mirrorVars>>

CallSpec == CallInit /\ [][CallNext]_vars
\* ------------------------------------------------------------------------
\* Properties of the routing proxy (specification Spec)
\* ------------------------------------------------------------------------

\* the string the mappings were matched against for the handled request
Subject == originalPath(req)

\* the indices of the compiled mappings whose pattern matches s
Matching(p, s) ==
    {i \in 1..Len(p.compiledMappings) : MatchString(p.compiledMappings[i].regex, s)}

\* the index of the mapping selected for s: the least matching one, 0 if none
Selected(p, s) ==
    IF Matching(p, s) = {} THEN 0
    ELSE CHOOSE i \in Matching(p, s) : \A k \in Matching(p, s) : i <= k

\* the template of mapping i with the groups of its leftmost match in s
\* substituted, written once
TemplateOnce(p, i, s) ==
    LET mapping == p.compiledMappings[i]
    IN  Expand(mapping.to, 1, s, FindFrom(mapping.regex, s, 1))

Mapped == handled /\ Selected(proxy, Subject) # 0

\* C1 (as claimed): when a mapping matches, the resolved URL is that
\* mapping's template with its capture groups substituted, exactly once, and
\* contains nothing of the matched string outside the match.
C1_TemplateExactlyOnce ==
    Mapped => target.url = TemplateOnce(proxy, Selected(proxy, Subject), Subject)

\* C2: first match wins.  The resolved URL is the one the matching mapping
\* of least index produces with ReplaceAllString; a later matching mapping
\* is used only when no earlier one matches.
C2_FirstMatchWins ==
    handled =>
        \A i \in Matching(proxy, Subject) :
            (\A k \in 1..(i - 1) : k \notin Matching(proxy, Subject))
                <=> (/\ ~target.err
                     /\ target.url = ReplaceAllString(proxy.compiledMappings[i].regex,
                                                      Subject, proxy.compiledMappings[i].to))

\* what mapping i alone would produce for s
Produced(p, i, s) ==
    ReplaceAllString(p.compiledMappings[i].regex, s, p.compiledMappings[i].to)

\* C2 witness: two mappings match the handled request, they would produce
\* different URLs, and the URL resolved is the first one's.
C2_Witness ==
    /\ handled
    /\ Cardinality(Matching(proxy, Subject)) = 2
    /\ Produced(proxy, 1, Subject) # Produced(proxy, 2, Subject)
    /\ target.url = Produced(proxy, 1, Subject)

\* C3 (as claimed): the query never decides which mapping is selected: the
\* handled request selects the mapping that the same path selects with any
\* other query.
C3_QueryDoesNotSelect ==
    handled =>
        \A q \in Queries :
            Selected(proxy, originalPath([req EXCEPT !.RawQuery = q]))
                = Selected(proxy, Subject)

\* C4 (as claimed): when a mapping matches inside the path of a request that
\* has a query, the resolved URL does not end with the request's query.
C4_QueryNotAppended ==
    (/\ Mapped
     /\ req.RawQuery # <<>>
     /\ LET m == FindFrom(proxy.compiledMappings[Selected(proxy, Subject)].regex, Subject, 1)
        IN  m.end - 1 <= Len(req.Path))
    => LET tail == <<"?">> \o req.RawQuery
           n == Len(target.url)
       IN  ~(n >= Len(tail) /\ SubSeq(target.url, n - Len(tail) + 1, n) = tail)

\* the request fell through to the default host
Unmapped == handled /\ Selected(proxy, Subject) = 0

\* scheme and host of a parsed base URL as they are written in a URL
BaseOf(u) ==
    (IF u.Scheme # <<>> THEN u.Scheme \o <<":">> ELSE <<>>)
        \o (IF u.Scheme # <<>> \/ u.Host # <<>> THEN <<"/", "/">> \o u.Host ELSE <<>>)

QueryPart(r) == IF r.RawQuery # <<>> THEN <<"?">> \o r.RawQuery ELSE <<>>

C6_NoRoute ==
    (Unmapped /\ proxy.defaultHost = <<>>)
    => /\ target.err
       /\ reply.written = 1
       /\ reply.status = 502
       /\ outbound = <<>>

C6_Witness ==
    /\ Unmapped
    /\ proxy.defaultHost = <<>>
    /\ Len(proxy.compiledMappings) > 0
    /\ reply.status = 502

\* the configuration has a pattern that does not compile
HasInvalidPattern ==
    \E i \in 1..Len(config.PathMappings) : Compile(config.PathMappings[i].From).err

\* C7: an invalid pattern at any position prevents construction: there is no
\* Proxy, main never listens and no request is ever handled.
C7_InvalidRegexPreventsStart ==
    HasInvalidPattern
    => /\ ~proxy.ok
       /\ proxy.compiledMappings = <<>>
       /\ mainPc # "listening"
       /\ ~handled

\* C7 witness: main has exited on a configuration whose invalid pattern
\* comes after a valid one
C7_Witness ==
    /\ mainPc = "exited"
    /\ Len(config.PathMappings) = 2
    /\ ~Compile(config.PathMappings[1].From).err
    /\ Compile(config.PathMappings[2].From).err

\* ------------------------------------------------------------------------
\* Properties of the mirror proxy (specification MirrorSpec)
\* ------------------------------------------------------------------------

\* the host an outbound attempt was addressed to
HostOf(a) == Parse(a.req.URL).Host

\* a request can be made for mirror i of the request being handled
Usable(i) ==
    /\ ~replaceHost(mtarget, mirrors[i]).err
    /\ ~NewRequestFails(replaceHost(mtarget, mirrors[i]).url)

\* the attempts are the primary target first and then, only after the
\* primary answered 404, mirrors in configured order: each mirror attempt
\* follows an attempt for an earlier position that did not yield a non-404
\* response, and every position between the two was skipped as unusable
CallOrder ==
    /\ mattempts # <<>> => mattempts[1].mirror = 0
    /\ \A n \in 2..Len(mattempts) :
          /\ mattempts[1].result = StatusNotFound
          /\ mattempts[n].mirror \in 1..Len(mirrors)
          /\ mattempts[n].req.URL = replaceHost(mtarget, mirrors[mattempts[n].mirror]).url
          /\ mattempts[n - 1].mirror < mattempts[n].mirror
          /\ mattempts[n - 1].result \in {NoResponse, StatusNotFound}
          /\ \A i \in (mattempts[n - 1].mirror + 1)..(mattempts[n].mirror - 1) : ~Usable(i)

\* no two attempts of the request went to the same host
NoHostTwice ==
    \A a, b \in 1..Len(mattempts) :
        a # b => HostOf(mattempts[a]) # HostOf(mattempts[b])

\* C8 (as claimed): failover call order: the primary target is contacted
\* first, a mirror only after the primary answered 404, mirror j only after
\* every mirror before it was tried without a non-404 response, and no host
\* is contacted twice for the same request.
C8_FailoverCallOrder == CallOrder /\ NoHostTwice

\* C8 (amended): failover call order as claimed, except that it is each
\* position of the mirror list, not each host, that is contacted at most
\* once: a host is contacted again when it is listed twice or is also the
\* host of the primary target.
C8_FailoverCallOrderAmended ==
    /\ CallOrder
    /\ \A a, b \in 1..Len(mattempts) :
          a # b => mattempts[a].mirror # mattempts[b].mirror
    /\ \A a, b \in 1..Len(mattempts) :
          (a < b /\ HostOf(mattempts[a]) = HostOf(mattempts[b]))
          => \/ a = 1 /\ HostOf(mattempts[1]) = Parse(mirrors[mattempts[b].mirror]).Host
             \/ a > 1 /\ Parse(mirrors[mattempts[a].mirror]).Host
                            = Parse(mirrors[mattempts[b].mirror]).Host

\* C8 witness: the primary and then both mirrors, in configured order, were
\* contacted at three different hosts
C8_Witness ==
    /\ Len(mattempts) = 3
    /\ mattempts[1].mirror = 0
    /\ mattempts[2].mirror = 1
    /\ mattempts[3].mirror = 2
    /\ Cardinality({HostOf(mattempts[n]) : n \in 1..3}) = 3

\* C9: failover short-circuit.  When the primary answered 404 and a mirror
\* answers with a status other than 404, that mirror is the first to do so
\* in configured order, no mirror after it is contacted, and its status,
\* headers and body are what the client is sent.
C9_ShortCircuit ==
    \A n \in 2..Len(mattempts) :
        mattempts[n].result \in Statuses \ {StatusNotFound}
        => /\ mattempts[1].result = StatusNotFound
           /\ \A k \in 2..(n - 1) :
                 /\ mattempts[k].mirror < mattempts[n].mirror
                 /\ mattempts[k].result \in {NoResponse, StatusNotFound}
           /\ n = Len(mattempts)
           /\ mpc = "done"
           /\ mreply.written = 1
           /\ mreply.status = mattempts[n].result
           /\ mreply.header = Response(mattempts[n].req.URL, mattempts[n].result).Header
           /\ mreply.body = Response(mattempts[n].req.URL, mattempts[n].result).Body

\* C9 witness: the first of two usable mirrors answered 200 after the
\* primary's 404; it was relayed and the second mirror was not contacted
C9_Witness ==
    /\ mpc = "done"
    /\ Len(mirrors) = 2
    /\ Usable(2)
    /\ Len(mattempts) = 2
    /\ mattempts[1].result = StatusNotFound
    /\ mattempts[2].mirror = 1
    /\ mattempts[2].result = 200
    /\ mreply.status = 200

\* the primary and every configured mirror were contacted and answered 404
AllNotFound ==
    /\ mpc = "done"
    /\ Len(mattempts) = 1 + Len(mirrors)
    /\ \A n \in 1..Len(mattempts) : mattempts[n].result = StatusNotFound

\* what the client is sent then: determined by the request and the mirror
\* list alone
NotFoundOutcome(ms, r) ==
    [written |-> 1,
     status |-> StatusNotFound,
     header |-> Response(mirrorTargetURL(r), StatusNotFound).Header,
     body |-> IF ms = <<>> THEN Response(mirrorTargetURL(r), StatusNotFound).Body
              ELSE <<>>]

\* C10: all mirrors fail.  If the primary and every configured mirror
\* answer 404, the status the client is sent is 404, and what it is sent is
\* a function of the request and the configuration, so that repeating the
\* request against the same upstream behaviour yields the same outcome.
C10_AllMirrorsFail ==
    AllNotFound
    => /\ mreply.status = StatusNotFound
       /\ mreply = NotFoundOutcome(mirrors, mreq)

\* C10 witness: the primary and two mirrors all answered 404
C10_Witness ==
    /\ AllNotFound
    /\ Len(mirrors) = 2
    /\ Len(mattempts) = 3
    /\ mreply.status = StatusNotFound

\* the primary answered 404 and every mirror attempt ended in 404 or failed
EndedNotFound ==
    /\ mpc = "done"
    /\ mattempts # <<>>
    /\ mattempts[1].result = StatusNotFound
    /\ \A n \in 2..Len(mattempts) : mattempts[n].result \in {StatusNotFound, NoResponse}

\* the last attempt that obtained a 404 response
LastNotFound ==
    CHOOSE n \in 1..Len(mattempts) :
        /\ mattempts[n].result = StatusNotFound
        /\ \A k \in (n + 1)..Len(mattempts) : mattempts[k].result # StatusNotFound

\* C11 (as claimed): when the primary and every mirror end in 404 (or are
\* skipped), the client is sent the last 404 response obtained: its headers
\* and its body, still readable, not those of an earlier attempt whose body
\* has been closed.
C11_LastNotFoundRelayed ==
    EndedNotFound
    => /\ mreply.status = StatusNotFound
       /\ mreply.header
            = Response(mattempts[LastNotFound].req.URL, StatusNotFound).Header
       /\ mreply.body
            = Response(mattempts[LastNotFound].req.URL, StatusNotFound).Body

\* C12: if the primary attempt gets no response, the client is answered
\* 502 Bad Gateway at once and no mirror is contacted, however many mirrors
\* are configured.
C12_PrimaryTransportFailure ==
    (mattempts # <<>> /\ mattempts[1].result = NoResponse)
    => /\ mpc = "done"
       /\ Len(mattempts) = 1
       /\ mreply.written = 1
       /\ mreply.status = 502
       /\ mreply.header = NoHeader

\* C12 witness: two usable mirrors are configured, the primary attempt got
\* no response and the client was answered 502
C12_Witness ==
    /\ Len(mirrors) = 2
    /\ Usable(1)
    /\ Usable(2)
    /\ Len(mattempts) = 1
    /\ mattempts[1].result = NoResponse
    /\ mreply.status = 502

\* the header names of the model
HeaderNames == {"UserAgent", "XForwardedFor"}

\* the values of a header as a set
Values(header, name) == {header[name][k] : k \in 1..Len(header[name])}

\* C13 (as claimed): request-header pass-through: every name/value pair the
\* client supplied is present on every outbound request built for the
\* request (primary and each mirror attempt); none is dropped or replaced.
C13_HeaderPassThrough ==
    \A n \in 1..Len(mattempts) :
        \A name \in HeaderNames :
            Values(mreq.Header, name) \subseteq Values(mattempts[n].req.Header, name)

\* C13 (amended): every outbound request built for a request carries the
\* values the client supplied for every header other than X-Forwarded-For,
\* unchanged and in order; the X-Forwarded-For values the client supplied
\* are replaced by the client address when the request has one
\* (RemoteAddr is not empty) and carried unchanged otherwise.
C13_HeaderPassThroughAmended ==
    \A n \in 1..Len(mattempts) :
        /\ mattempts[n].req.Header.UserAgent = mreq.Header.UserAgent
        /\ mattempts[n].req.Header.XForwardedFor
             = IF mreq.RemoteAddr # "" THEN <<mreq.RemoteAddr>>
               ELSE mreq.Header.XForwardedFor

\* C13 witness: a request with two values of one header and an
\* X-Forwarded-For value reached a mirror
C13_Witness ==
    /\ Len(mattempts) >= 2
    /\ Len(mreq.Header.UserAgent) = 2
    /\ mreq.Header.XForwardedFor # <<>>
    /\ mattempts[2].req.Header.UserAgent = mreq.Header.UserAgent

\* C14: response relay.  Whenever the primary target answered, the handler
\* ends with one upstream response selected (resp), and the client is sent
\* exactly that response's status code and headers, whatever the status: a
\* 404 with no mirrors and a 5xx are relayed as they are, never turned into
\* a gateway error.
C14_ResponseRelay ==
    (mpc = "done" /\ mattempts # <<>> /\ mattempts[1].result \in Statuses)
    => /\ mresp \in 1..Len(mattempts)
       /\ mattempts[mresp].result \in Statuses
       /\ mreply.written = 1
       /\ mreply.status = mattempts[mresp].result
       /\ mreply.header
            = Response(mattempts[mresp].req.URL, mattempts[mresp].result).Header
       /\ (Len(mattempts) = 1 => mresp = 1)

\* C14 witness: the primary answered 500 and the client was sent 500 with
\* the response's headers
C14_Witness ==
    /\ mpc = "done"
    /\ Len(mattempts) = 1
    /\ mattempts[1].result = 500
    /\ mreply.status = 500
    /\ mreply.header # NoHeader

\* C15 (as claimed): every outbound attempt, the primary and each mirror
\* attempt of the failover path, carries the method and the body of the
\* original request.
C15_SameMethodAndBody ==
    \A n \in 1..Len(mattempts) :
        /\ mattempts[n].req.Method = mreq.Method
        /\ mattempts[n].req.Body = mreq.Body

\* what follows scheme and host in the target URL of the request being
\* handled: its path and query as resolved
TargetPathAndQuery == Slice(mtarget, Len(<<"h", "t", "t", "p", ":", "/", "/">> \o mreq.Host) + 1,
                            Len(mtarget))

\* C16: the URL of every mirror attempt is the mirror's scheme and host
\* followed by the path and query of the originally resolved target,
\* unchanged: replaceHost replaces scheme and host only, and it is always
\* applied to the target, never to a previous mirror's URL.
C16_ReplaceHost ==
    \A n \in 2..Len(mattempts) :
        /\ mattempts[n].req.URL = mirrors[mattempts[n].mirror] \o TargetPathAndQuery
        /\ Parse(mattempts[n].req.URL).Scheme = Parse(mirrors[mattempts[n].mirror]).Scheme
        /\ Parse(mattempts[n].req.URL).Host = Parse(mirrors[mattempts[n].mirror]).Host
        /\ Parse(mattempts[n].req.URL).Path = Parse(mattempts[1].req.URL).Path
        /\ Parse(mattempts[n].req.URL).RawQuery = Parse(mattempts[1].req.URL).RawQuery

\* C16 witness: a request with a query and an escaped character in its path
\* was sent to the primary and to two mirrors with different schemes
C16_Witness ==
    /\ Len(mattempts) = 3
    /\ mreq.URL.RawQuery # <<>>
    /\ mreq.URL.Path = <<"/", "a", "?">>
    /\ Parse(mattempts[2].req.URL).Scheme # Parse(mattempts[3].req.URL).Scheme
    /\ Parse(mattempts[3].req.URL).RawQuery = mreq.URL.RawQuery

\* C17 (as claimed): cancellation: once the client has closed its
\* connection while an attempt is in flight, the next thing that happens to
\* the request is that the attempt is aborted, ending without a response,
\* and the handler finishes without starting a further mirror attempt.
C17_Cancellation ==
    [][(mclientGone /\ mpc \in {"primary", "mirror"})
       => /\ mpc' = "done"
          /\ mattempts' = [mattempts EXCEPT ![Len(mattempts)].result = NoResponse]]_vars

\* C18: resource cleanup.  When the handler has returned, the body of every
\* upstream response obtained for the request (the primary's, every mirror's
\* 404 and the one relayed) has been closed, also when the client is gone
\* and copying the body to it fails.
C18_BodiesClosed ==
    mpc = "done"
    => \A n \in 1..Len(mattempts) :
           mattempts[n].result \in Statuses => n \in mclosed

\* C18 witness: the client went away during a request whose primary and
\* first mirror answered 404 and whose second mirror answered 200; all
\* three bodies are closed
C18_Witness ==
    /\ mpc = "done"
    /\ mclientGone
    /\ Len(mattempts) = 3
    /\ mattempts[1].result = StatusNotFound
    /\ mattempts[2].result = StatusNotFound
    /\ mattempts[3].result = 200
    /\ mclosed = {1, 2, 3}

\* C19: every outbound request built for a request of a client with an
\* observed address (the primary and each mirror attempt) carries an
\* X-Forwarded-For header whose single value is that address, whatever
\* X-Forwarded-For values the client sent.
C19_ForwardedFor ==
    mreq.RemoteAddr # ""
    => \A n \in 1..Len(mattempts) :
           mattempts[n].req.Header.XForwardedFor = <<mreq.RemoteAddr>>

\* C19 witness: a client that sent its own X-Forwarded-For value had its
\* request tried against the primary and a mirror
C19_Witness ==
    /\ mreq.RemoteAddr = "client"
    /\ mreq.Header.XForwardedFor = <<"spoof">>
    /\ Len(mattempts) >= 2
    /\ mattempts[1].req.Header.XForwardedFor = <<"client">>
    /\ mattempts[2].req.Header.XForwardedFor = <<"client">>

\* C20 (as claimed): configuration errors never reach request-handling
\* time: a proxy that NewProxy returned serves only with a default host
\* that is empty or parses, and the only way buildTargetURL fails for a
\* request is NoRoute (empty default host and no matching mapping).
C20_ConfigErrorsAtStartup ==
    /\ mainPc = "listening"
       => (proxy.defaultHost = <<>> \/ ~Parse(proxy.defaultHost).err)
    /\ (handled /\ target.err)
       => (proxy.defaultHost = <<>> /\ Selected(proxy, Subject) = 0)

\* the handled request failed: no route, no outbound request could be
\* made from the resolved target, or the target gave no response
RequestFailed ==
    /\ handled
    /\ \/ target.err
       \/ NewRequestFails(target.url)
       \/ reply.body = <<"Failed to reach target server">>

\* C21 (as claimed): every routing or forwarding failure of a request is
\* answered with one and the same status, 502 Bad Gateway.
C21_SingleFailureStatus ==
    RequestFailed => (reply.written = 1 /\ reply.status = StatusBadGateway)

\* C22: a mirror whose URL cannot be built is never contacted, and after a
\* mirror attempt that got no response, as after a mirror that was passed
\* over, the next usable mirror in order is tried; when none is left the
\* request ends.  None of this yields a gateway error: after a 404 primary
\* the client is always sent an upstream response, a mirror's non-404 or a
\* 404, even if every mirror attempt fails.
C22_MirrorSkipped ==
    /\ \A n \in 2..Len(mattempts) :
          /\ Usable(mattempts[n].mirror)
          /\ mattempts[n].result = NoResponse
             => IF \E j \in (mattempts[n].mirror + 1)..Len(mirrors) : Usable(j)
                THEN /\ n < Len(mattempts)
                     /\ mattempts[n + 1].mirror > mattempts[n].mirror
                     /\ \A j \in (mattempts[n].mirror + 1)..(mattempts[n + 1].mirror - 1) :
                           ~Usable(j)
                ELSE n = Len(mattempts) /\ mpc = "done"
    /\ (mpc = "done" /\ mattempts # <<>> /\ mattempts[1].result = StatusNotFound)
       => /\ mreply.written = 1
          /\ mreply.header # NoHeader
          /\ \/ mreply.status = StatusNotFound
             \/ /\ Len(mattempts) > 1
                /\ mattempts[Len(mattempts)].result \in Statuses \ {StatusNotFound}
                /\ mreply.status = mattempts[Len(mattempts)].result

\* C22 witness: after a 404 primary the first mirror, which does not parse,
\* was passed over, the attempt against the second got no response, and the
\* client was sent a 404
C22_Witness ==
    /\ mpc = "done"
    /\ Len(mirrors) = 2
    /\ ~Usable(1)
    /\ Len(mattempts) = 2
    /\ mattempts[1].result = StatusNotFound
    /\ mattempts[2].mirror = 2
    /\ mattempts[2].result = NoResponse
    /\ mreply.status = StatusNotFound

\* the Proxy as NewProxy built it from the configuration main loaded
Constructed == NewProxy(config.DefaultHost, config.PathMappings, config.FollowRedirects)

\* C23: handling requests never changes the routing configuration: while
\* the proxy is serving, whatever calls of ServeHTTP have run or are running,
\* its default host, compiled mapping list and redirect flag are the ones
\* NewProxy built, and the target a call has resolved is the one the
\* constructed proxy gives for that call's request alone.
C23_ConfigurationUnchanged ==
    /\ mainPc = "listening" => proxy = Constructed
    /\ \A c \in Calls :
          cpc[c] = "forwarding" => ctarget[c] = buildTargetURL(Constructed, creq[c])

\* C23 witness: two calls are in flight at once, for different requests,
\* and each has resolved a target of its own, one through a mapping and one
\* through the default host
C23_Witness ==
    /\ \A c \in Calls : cpc[c] = "forwarding"
    /\ creq[1] # creq[2]
    /\ ~ctarget[1].err /\ ~ctarget[2].err
    /\ ctarget[1].url # ctarget[2].url
    /\ Selected(proxy, creq[1].Path) # 0
    /\ Selected(proxy, creq[2].Path) = 0

\* an outbound attempt of the request is in flight
InFlight == mpc \in {"primary", "mirror"}

\* C24: every request terminates with exactly one response.  At no time has
\* a request made more than 1 + (number of mirrors) outbound attempts;
\* nothing is written to the client before ServeHTTP returns and exactly one
\* status has been written when it has, whether the request ended with an
\* error reply or with a relayed upstream response; a reply once written is
\* not written again; and, every outbound attempt ending, a request in
\* flight leads to ServeHTTP having returned.
C24_TerminatesWithOneResponse ==
    /\ [](/\ Len(mattempts) <= 1 + Len(mirrors)
          /\ mpc = "done" => mreply.written = 1
          /\ mpc # "done" => mreply.written = 0)
    /\ [][mreply.written = 1 => (mreply' = mreply \/ mpc' = "idle")]_vars
    /\ InFlight ~> mpc = "done"

\* C24 witness: ServeHTTP has returned after the primary and every one of
\* two mirrors were attempted, the last of them answering with a transport
\* error, and one status was written
C24_Witness ==
    /\ mpc = "done"
    /\ Len(mirrors) = MaxMirrors
    /\ Len(mattempts) = 1 + Len(mirrors)
    /\ \A n \in 1..Len(mattempts) : mattempts[n].result # Pending
    /\ mattempts[Len(mattempts)].result = NoResponse
    /\ mreply.written = 1

====
